---- MODULE Spec2Model ----
(***************************************************************************)
(* Model of qodex's entry point (src/src/qodex/__main__.py).               *)
(*                                                                         *)
(* main() calls parse_args(), prints the greeting and returns os.EX_OK.    *)
(* parse_args() builds an argparse.ArgumentParser() (default add_help, so  *)
(* -h/--help is registered), adds the positional `files` with nargs="*"    *)
(* and type=argparse.FileType("r+"), and calls parser.parse_args().        *)
(* The parser's work is modelled step by step as CPython's argparse does   *)
(* it: classification of the tokens, the alternation of consume_optional   *)
(* and consume_positionals, the conversion of every positional string by   *)
(* FileType, the final check for unrecognized arguments.                   *)
(***************************************************************************)
EXTENDS Integers, Sequences, FiniteSets, TLC

\* ---------------------------------------------------------------- bounds
MaxArgs == 3
MaxRuns == 2

\* ------------------------------------------------------- program constants
EX_OK == 0
EX_USAGE == 2
Greeting == "Hello Qodex!"
\* the mode that mutates the target of every successful open
FileTypeMode_w == "w+"
\* the mode that refuses a target that already exists
FileTypeMode_x == "x+"
FileTypeMode == "r+"

\* ------------------------------------------------------------ environment
\* Command-line tokens: two ordinary names, the pseudo-argument "-", the
\* separator "--", the help option and an option the parser does not know.
Tokens == {"a", "b", "-", "--", "-h", "-x"}
\* Names the program may hand to open(); "-" is never handed to open().
Paths == {"a", "b", "--", "-h", "-x"}
Kinds == {"file", "emptyfile", "missing", "dir", "noperm"}
Exists == {"file", "emptyfile"}

CmdLines == UNION {[1..n -> Tokens] : n \in 0..MaxArgs}
FileSystems ==
    {f \in [Paths -> Kinds] :
        /\ f["a"] = "file"
        /\ f["b"] \in {"file", "missing", "dir", "noperm"}
        /\ \A p \in {"--", "-h", "-x"} : f[p] \in {"file", "missing"}}

HelpText == <<"usage: qodex [-h] [files ...]", "options: -h, --help">>
ErrorText == <<"usage: qodex [-h] [files ...]", "qodex: error">>

VARIABLES argv, fs, fs0, pc, line, nparse, start_index, positionals, extras,
          pending, acc, files, opened, failed, openHandles,
          stdout, stderr, status, run, first

vars == <<argv, fs, fs0, pc, line, nparse, start_index, positionals, extras,
          pending, acc, files, opened, failed, openHandles,
          stdout, stderr, status, run, first>>

\* ------------------------------------------------------- builtin open()
\* open(path, mode) succeeds: r+ needs an existing, permitted regular file;
\* w+ also creates a missing one; x+ only creates.
OpenOK(kind, mode) ==
    CASE mode = "r+" -> kind \in Exists
      [] mode = "w+" -> kind \in Exists \cup {"missing"}
      [] mode = "x+" -> kind = "missing"
      [] OTHER -> FALSE

\* what a successful open leaves on disk: r+ neither creates nor truncates
OpenEffect(kind, mode) ==
    IF mode = "r+" THEN kind ELSE "emptyfile"

\* ------------------------------------------------------------- argparse
\* _parse_optional: a string is an option candidate when it starts with "-"
\* and is longer than one character; "-h" is registered by add_help. (Strings
\* that look like negative numbers or contain a space are positional in
\* argparse; no such string is among Tokens.)
ParseOptional(tok) ==
    CASE tok = "-h" -> "help"
      [] tok = "-x" -> "unknown"
      [] OTHER -> "positional"

\* arg_strings_pattern: "-" for the first "--", "A" for everything after it
\* and for every non-option, "O" for an option
Pattern(args) ==
    [i \in 1..Len(args) |->
        IF \E j \in 1..(i-1) : args[j] = "--" THEN "A"
        ELSE IF args[i] = "--" THEN "-"
        ELSE IF ParseOptional(args[i]) = "positional" THEN "A"
        ELSE "O"]

OptionIndices(args) == {i \in 1..Len(args) : Pattern(args)[i] = "O"}

SetMax(S) == CHOOSE m \in S : \A k \in S : k <= m
SetMin(S) == CHOOSE m \in S : \A k \in S : m <= k

\* max(option_string_indices), 0 standing for Python's -1 (indices from 1)
MaxOptionIndex(args) ==
    IF OptionIndices(args) = {} THEN 0 ELSE SetMax(OptionIndices(args))

\* min(index for index in option_string_indices if index >= start_index),
\* Len(args) + 1 when no option is left
NextOptionIndex(args, start) ==
    IF \E i \in OptionIndices(args) : i >= start
    THEN SetMin({i \in OptionIndices(args) : i >= start})
    ELSE Len(args) + 1

\* _match_arguments_partial for nargs="*" (pattern "(-*[A-]*)"): the longest
\* run of non-option strings from `start`
MatchCount(args, start) == NextOptionIndex(args, start) - start

SeqRange(lo, hi) == [k \in 1..(IF hi >= lo THEN hi - lo + 1 ELSE 0) |-> lo + k - 1]

\* _get_values: arg_strings.remove("--") drops the first "--" of the slice
DropFirstSeparator(args, idxs) ==
    IF \E k \in 1..Len(idxs) : args[idxs[k]] = "--"
    THEN LET k0 == SetMin({k \in 1..Len(idxs) : args[idxs[k]] = "--"})
         IN  SubSeq(idxs, 1, k0 - 1) \o SubSeq(idxs, k0 + 1, Len(idxs))
    ELSE idxs

Reverse(s) == [k \in 1..Len(s) |-> s[Len(s) + 1 - k]]

\* the strings handed to the converter, last one first
ArgsToConvert_reversed(args, start, count) ==
    Reverse(DropFirstSeparator(args, SeqRange(start, start + count - 1)))

\* the strings handed to the converter, in command-line order
ArgsToConvert(args, start, count) ==
    DropFirstSeparator(args, SeqRange(start, start + count - 1))

\* entries of `files`: the stream and the token it was converted from
StdStream(name, i) == [path |-> name, tok |-> i]
FileHandle(p, i) == [path |-> p, tok |-> i]

\* FileType.__call__ for "-" when the mode had no "r": sys.stdout
DashStream_stdout(i) == StdStream("<stdout>", i)
\* FileType.__call__ for "-": "r" in the mode, so sys.stdin
DashStream(i) == StdStream("<stdin>", i)

\* ------------------------------------------------------------------ main
\* main() with the greeting printed before the arguments are parsed
MainBody_printfirst == <<"print", "parse_args", "return">>
\* the statements of main(), in order
MainBody == <<"parse_args", "print", "return">>

\* a greeting that reports on the parsed files
GreetingLine_count(fl) == IF Len(fl) = 0 THEN Greeting ELSE "Hello Qodex! (files)"
\* print("Hello Qodex!"): the text does not depend on args
GreetingLine(fl) == Greeting

Init ==
    /\ argv \in CmdLines
    /\ fs \in FileSystems
    /\ fs0 = fs
    /\ pc = "main"
    /\ line = 1
    /\ nparse = 0
    /\ start_index = 1
    /\ positionals = TRUE
    /\ extras = <<>>
    /\ pending = <<>>
    /\ acc = <<>>
    /\ files = <<>>
    /\ opened = <<>>
    /\ failed = 0
    /\ openHandles = {}
    /\ stdout = <<>>
    /\ stderr = <<>>
    /\ status = -1
    /\ run = 1
    /\ first = [status |-> -1, stdout |-> <<>>]

\* args = parse_args(): build the parser and enter parser.parse_args()
ParseArgs ==
    /\ pc = "main"
    /\ line <= Len(MainBody)
    /\ MainBody[line] = "parse_args"
    /\ pc' = "loop"
    /\ nparse' = nparse + 1
    /\ start_index' = 1
    /\ positionals' = TRUE
    /\ extras' = <<>>
    /\ UNCHANGED <<argv, fs, fs0, line, pending, acc, files, opened, failed,
                   openHandles, stdout, stderr, status, run, first>>

\* consume_positionals(start_index) while `files` is still to be parsed:
\* slice off the run of non-options and start converting it
ConsumePositionals ==
    /\ pc = "loop"
    /\ positionals
    /\ \/ start_index > MaxOptionIndex(argv)
       \/ start_index # NextOptionIndex(argv, start_index)
    /\ LET count == MatchCount(argv, start_index)
       IN  /\ pending' = ArgsToConvert(argv, start_index, count)
           /\ start_index' = start_index + count
    /\ acc' = <<>>
    /\ pc' = "convert"
    /\ UNCHANGED <<argv, fs, fs0, line, nparse, positionals, extras, files,
                   opened, failed, openHandles, stdout, stderr, status, run,
                   first>>

\* a converter that swallows the OSError and drops the argument
GetValue_skip ==
    /\ pc = "convert"
    /\ pending # <<>>
    /\ LET i == Head(pending)
           tok == argv[i]
       IN  IF tok = "-"
           THEN /\ acc' = Append(acc, DashStream(i))
                /\ UNCHANGED <<fs, opened, openHandles>>
           ELSE IF OpenOK(fs[tok], FileTypeMode)
           THEN /\ acc' = Append(acc, FileHandle(tok, i))
                /\ opened' = Append(opened, i)
                /\ openHandles' = openHandles \cup {FileHandle(tok, i)}
                /\ fs' = [fs EXCEPT ![tok] = OpenEffect(fs[tok], FileTypeMode)]
           ELSE UNCHANGED <<acc, fs, opened, openHandles>>
    /\ pending' = Tail(pending)
    /\ UNCHANGED <<argv, fs0, pc, line, nparse, start_index, positionals,
                   extras, files, failed, stdout, stderr, status, run, first>>

\* _get_value(action, arg_string) for the next string: FileType("r+")(string);
\* an OSError becomes parser.error(): usage and message on stderr, exit(2)
GetValue ==
    /\ pc = "convert"
    /\ pending # <<>>
    /\ LET i == Head(pending)
           tok == argv[i]
       IN  IF tok = "-"
           THEN /\ acc' = Append(acc, DashStream(i))
                /\ pending' = Tail(pending)
                /\ UNCHANGED <<fs, opened, openHandles, failed, stderr,
                               status, pc>>
           ELSE IF OpenOK(fs[tok], FileTypeMode)
           THEN /\ acc' = Append(acc, FileHandle(tok, i))
                /\ pending' = Tail(pending)
                /\ opened' = Append(opened, i)
                /\ openHandles' = openHandles \cup {FileHandle(tok, i)}
                /\ fs' = [fs EXCEPT ![tok] = OpenEffect(fs[tok], FileTypeMode)]
                /\ UNCHANGED <<failed, stderr, status, pc>>
           ELSE /\ failed' = i
                /\ stderr' = stderr \o ErrorText
                /\ status' = EX_USAGE
                /\ pc' = "exit"
                /\ UNCHANGED <<acc, pending, fs, opened, openHandles>>
    /\ UNCHANGED <<argv, fs0, line, nparse, start_index, positionals, extras,
                   files, stdout, run, first>>

\* the store action: setattr(namespace, "files", values); the positional is
\* removed from the list of positionals left to parse
StoreFiles ==
    /\ pc = "convert"
    /\ pending = <<>>
    /\ files' = acc
    /\ positionals' = FALSE
    /\ pc' = IF start_index <= MaxOptionIndex(argv) THEN "loop" ELSE "finish"
    /\ UNCHANGED <<argv, fs, fs0, line, nparse, start_index, extras, pending,
                   acc, opened, failed, openHandles, stdout, stderr, status,
                   run, first>>

\* the loop body at an option: strings no positional is left for go to
\* extras, then consume_optional: help prints the help text on stdout and
\* exits 0; an unknown option goes to extras
ConsumeOptional ==
    /\ pc = "loop"
    /\ start_index <= MaxOptionIndex(argv)
    /\ \/ ~positionals
       \/ start_index = NextOptionIndex(argv, start_index)
    /\ LET next == NextOptionIndex(argv, start_index)
           skipped == [k \in 1..(next - start_index) |-> argv[start_index + k - 1]]
       IN  IF ParseOptional(argv[next]) = "help"
           THEN /\ stdout' = stdout \o HelpText
                /\ status' = EX_OK
                /\ pc' = "exit"
                /\ extras' = extras \o skipped
                /\ start_index' = next
           ELSE /\ extras' = (extras \o skipped) \o <<argv[next]>>
                /\ start_index' = next + 1
                /\ UNCHANGED <<stdout, status, pc>>
    /\ UNCHANGED <<argv, fs, fs0, line, nparse, positionals, pending, acc,
                   files, opened, failed, openHandles, stderr, run, first>>

\* after the last option with no positional left: the rest are extras
RemainingExtras ==
    /\ pc = "loop"
    /\ start_index > MaxOptionIndex(argv)
    /\ ~positionals
    /\ extras' = extras \o
           [k \in 1..(Len(argv) + 1 - start_index) |-> argv[start_index + k - 1]]
    /\ pc' = "finish"
    /\ UNCHANGED <<argv, fs, fs0, line, nparse, start_index, positionals,
                   pending, acc, files, opened, failed, openHandles, stdout,
                   stderr, status, run, first>>

\* parse_known_args() in place of parse_args(): extras are not an error
Finish_known ==
    /\ pc = "finish"
    /\ pc' = "main"
    /\ line' = line + 1
    /\ UNCHANGED <<argv, fs, fs0, nparse, start_index, positionals, extras,
                   pending, acc, files, opened, failed, openHandles, stdout,
                   stderr, status, run, first>>

\* parse_args(): unrecognized arguments are parser.error(), otherwise the
\* namespace is returned to main()
Finish ==
    /\ pc = "finish"
    /\ IF extras # <<>>
       THEN /\ stderr' = stderr \o ErrorText
            /\ status' = EX_USAGE
            /\ pc' = "exit"
            /\ UNCHANGED line
       ELSE /\ pc' = "main"
            /\ line' = line + 1
            /\ UNCHANGED <<stderr, status>>
    /\ UNCHANGED <<argv, fs, fs0, nparse, start_index, positionals, extras,
                   pending, acc, files, opened, failed, openHandles, stdout,
                   run, first>>

\* a greeting printed twice
PrintGreeting_twice ==
    /\ pc = "main"
    /\ line <= Len(MainBody)
    /\ MainBody[line] = "print"
    /\ stdout' = (stdout \o <<GreetingLine(files)>>) \o <<GreetingLine(files)>>
    /\ line' = line + 1
    /\ UNCHANGED <<argv, fs, fs0, pc, nparse, start_index, positionals,
                   extras, pending, acc, files, opened, failed, openHandles,
                   stderr, status, run, first>>

\* print("Hello Qodex!")
PrintGreeting ==
    /\ pc = "main"
    /\ line <= Len(MainBody)
    /\ MainBody[line] = "print"
    /\ stdout' = Append(stdout, GreetingLine(files))
    /\ line' = line + 1
    /\ UNCHANGED <<argv, fs, fs0, pc, nparse, start_index, positionals,
                   extras, pending, acc, files, opened, failed, openHandles,
                   stderr, status, run, first>>

\* a main() that closes the files before it returns
ReturnOK_close ==
    /\ pc = "main"
    /\ line <= Len(MainBody)
    /\ MainBody[line] = "return"
    /\ status' = EX_OK
    /\ pc' = "exit"
    /\ openHandles' = {}
    /\ UNCHANGED <<argv, fs, fs0, line, nparse, start_index, positionals,
                   extras, pending, acc, files, opened, failed, stdout,
                   stderr, run, first>>

\* return os.EX_OK
ReturnOK ==
    /\ pc = "main"
    /\ line <= Len(MainBody)
    /\ MainBody[line] = "return"
    /\ status' = EX_OK
    /\ pc' = "exit"
    /\ UNCHANGED <<argv, fs, fs0, line, nparse, start_index, positionals,
                   extras, pending, acc, files, opened, failed, openHandles,
                   stdout, stderr, run, first>>

\* the process ends: the operating system releases whatever is still open
ProcessExit ==
    /\ pc = "exit"
    /\ pc' = "dead"
    /\ openHandles' = {}
    /\ UNCHANGED <<argv, fs, fs0, line, nparse, start_index, positionals,
                   extras, pending, acc, files, opened, failed, stdout,
                   stderr, status, run, first>>

\* the program is invoked again with the same command line, on the file
\* system the previous run left behind
Rerun ==
    /\ pc = "dead"
    /\ run < MaxRuns
    /\ run' = run + 1
    /\ first' = IF run = 1 THEN [status |-> status, stdout |-> stdout] ELSE first
    /\ pc' = "main"
    /\ line' = 1
    /\ nparse' = 0
    /\ start_index' = 1
    /\ positionals' = TRUE
    /\ extras' = <<>>
    /\ pending' = <<>>
    /\ acc' = <<>>
    /\ files' = <<>>
    /\ opened' = <<>>
    /\ failed' = 0
    /\ stdout' = <<>>
    /\ stderr' = <<>>
    /\ status' = -1
    /\ UNCHANGED <<argv, fs, fs0, openHandles>>

Next ==
    \/ ParseArgs
    \/ ConsumePositionals
    \/ GetValue
    \/ StoreFiles
    \/ ConsumeOptional
    \/ RemainingExtras
    \/ Finish
    \/ PrintGreeting
    \/ ReturnOK
    \/ ProcessExit
    \/ Rerun

Spec == Init /\ [][Next]_vars

\* ---------------------------------------------------------- vocabulary
Range(s) == {s[k] : k \in 1..Len(s)}
N == Len(argv)
Terminated == pc \in {"exit", "dead"}
\* parse_args() has returned to main() in this run
ParseReturned == line > 1
Greeted == Greeting \in Range(stdout)
\* the token names a file that exists and may be read and written
ValidPath(tok) == tok \in Paths /\ fs0[tok] \in Exists
AllValid == \A i \in 1..N : ValidPath(argv[i])
NoLeadingDash(tok) == tok \in {"a", "b"}
\* a token the parser takes for a path: not an option, not the separator,
\* not the pseudo-argument "-"
IsPathToken(i) == Pattern(argv)[i] = "A" /\ argv[i] # "-"
HasBadPath == \E i \in 1..N : IsPathToken(i) /\ ~OpenOK(fs0[argv[i]], "r+")
HasOption == OptionIndices(argv) # {}
HasHelp == \E i \in OptionIndices(argv) : ParseOptional(argv[i]) = "help"
HelpRun == HasHelp /\ failed = 0 /\ status = EX_OK /\ stdout = HelpText
               /\ stderr = <<>> /\ ~ParseReturned
ErrorRun == status = EX_USAGE /\ stderr # <<>> /\ stdout = <<>> /\ ~ParseReturned
FilesInOrder ==
    /\ Len(files) = N
    /\ \A i \in 1..N : files[i] = FileHandle(argv[i], i) /\ i \in Range(opened)
HandlesOpen ==
    \A k \in 1..Len(files) : files[k].path = "<stdin>" \/ files[k] \in openHandles

\* ------------------------------------------------------------------ C1
\* C1 as stated: whenever every token is a valid, existing, readable and
\* writable path, the run ends with status 0, stdout is exactly the greeting
\* and files holds, in order, the handle opened for each token.
C1_Original ==
    (Terminated /\ AllValid) =>
        (status = EX_OK /\ stdout = <<Greeting>> /\ FilesInOrder)

\* C1 (amended): whenever every token is a valid, existing, readable and
\* writable path that does not begin with "-", the run ends with status 0,
\* stdout is exactly the greeting and files holds, in command-line order,
\* the handle opened for each token (the empty sequence for no token).
C1_Thm ==
    (Terminated /\ AllValid /\ \A i \in 1..N : NoLeadingDash(argv[i])) =>
        (status = EX_OK /\ stdout = <<Greeting>> /\ FilesInOrder)

C1_Witness ==
    /\ Terminated /\ AllValid /\ N >= 2
    /\ \A i \in 1..N : NoLeadingDash(argv[i])
    /\ argv[1] # argv[2]
    /\ status = EX_OK /\ Len(files) = N

\* ------------------------------------------------------------------ C2
\* C2 as stated: when some path token cannot be opened in r+ mode, the
\* process ends with a non-zero status and a diagnostic on stderr,
\* parse_args() never returns and the greeting is never printed.
C2_Original ==
    HasBadPath =>
        /\ ~ParseReturned
        /\ ~Greeted
        /\ Terminated => (status # EX_OK /\ stderr # <<>>)

\* C2 (amended): when some path token cannot be opened in r+ mode,
\* parse_args() never returns and the greeting is never printed; the process
\* ends with a non-zero status and a diagnostic on stderr, unless the parser
\* reaches a help option before it tries a failing path, and then it ends
\* with status 0 and the help text on stdout.
C2_Thm ==
    HasBadPath =>
        /\ ~ParseReturned
        /\ ~Greeted
        /\ Terminated => (ErrorRun \/ HelpRun)

C2_Witness ==
    /\ Terminated /\ HasBadPath /\ failed >= 2
    /\ status = EX_USAGE /\ stderr # <<>>

\* ------------------------------------------------------------------ C3
\* C3 as stated: every run that ends with status 0 has exactly the greeting
\* on stdout.
C3_Original ==
    (Terminated /\ status = EX_OK) => stdout = <<Greeting>>

\* C3 (amended): every run in which main() returns ends with status 0 and
\* exactly the greeting on stdout; the only other runs that end with status 0
\* are the help runs, whose stdout is the help text and never the greeting.
C3_Thm ==
    /\ (Terminated /\ ParseReturned) => (status = EX_OK /\ stdout = <<Greeting>>)
    /\ (Terminated /\ status = EX_OK /\ ~ParseReturned) => HelpRun

C3_Witness ==
    /\ Terminated /\ status = EX_OK /\ stdout = <<Greeting>>
    /\ N >= 1 /\ Len(files) >= 1

\* ------------------------------------------------------------------ C4
\* C4 as stated: a command line with a token of option form always ends with
\* a non-zero status; no option is ever accepted and acted upon.
C4_Original ==
    (Terminated /\ HasOption) => (status # EX_OK /\ stdout # HelpText)

\* C4 (amended): besides the positional files the parser knows the help
\* option: a run whose command line has a token of option form never returns
\* from parse_args(); it ends with a non-zero status and a diagnostic, or,
\* when the parser reaches a help option, with status 0 and the help text.
\* A run that returns from parse_args() had no token of option form, and
\* every token but the first "--" was converted into an entry of files.
C4_Thm ==
    /\ (Terminated /\ HasOption) => (ErrorRun \/ HelpRun)
    /\ ParseReturned =>
          /\ ~HasOption
          /\ {files[k].tok : k \in 1..Len(files)} =
                {i \in 1..N : Pattern(argv)[i] = "A"}

C4_Witness ==
    /\ Terminated /\ HasOption /\ ~HasHelp
    /\ status = EX_USAGE /\ Len(opened) >= 1 /\ failed = 0

\* ------------------------------------------------------------------ C5
\* C5 as stated: every entry of files is the handle obtained by opening, in
\* r+ mode, the existing path its token names.
C5_Original ==
    ParseReturned =>
        \A k \in 1..Len(files) :
            /\ files[k].path = argv[files[k].tok]
            /\ files[k].tok \in Range(opened)
            /\ fs0[argv[files[k].tok]] \in Exists

\* C5 (amended): every entry of files is the handle obtained by opening, in
\* r+ mode, the existing path its token names, except that the token "-" is
\* not opened: its entry is the standard input stream.
C5_Thm ==
    ParseReturned =>
        \A k \in 1..Len(files) :
            IF argv[files[k].tok] = "-"
            THEN /\ files[k].path = "<stdin>"
                 /\ files[k].tok \notin Range(opened)
            ELSE /\ files[k].path = argv[files[k].tok]
                 /\ files[k].tok \in Range(opened)
                 /\ fs0[argv[files[k].tok]] \in Exists
                 /\ pc # "dead" => files[k] \in openHandles

C5_Witness ==
    /\ ParseReturned /\ Len(files) >= 2
    /\ \E k \in 1..Len(files) : files[k].path = "<stdin>"
    /\ \E k \in 1..Len(files) : files[k].path \in Paths

\* ------------------------------------------------------------------ C6
\* C6: a run leaves every named file as it found it (none is created,
\* truncated, deleted or modified), and a second run with the same command
\* line ends with the same exit status and the same stdout as the first.
C6_Thm ==
    /\ fs = fs0
    /\ (run >= 2 /\ Terminated) =>
          (status = first.status /\ stdout = first.stdout)

C6_Witness ==
    /\ run = 2 /\ Terminated /\ AllValid /\ N >= 1
    /\ Len(opened) = N
    /\ status = EX_OK /\ first.status = EX_OK /\ first.stdout = <<Greeting>>

\* ------------------------------------------------------------------ C7
\* C7: parse_args() is called once per run, and from its return until the
\* process exits files does not change and every handle in it is open; the
\* handles are released by the exit of the process and by nothing else.
C7_Thm ==
    [][(ParseReturned /\ pc \in {"main", "exit"}) =>
          /\ nparse = 1 /\ nparse' = nparse
          /\ HandlesOpen
          /\ files' = files
          /\ pc' # "dead" => openHandles' = openHandles]_vars

C7_Witness ==
    /\ ParseReturned /\ pc = "exit" /\ Len(files) >= 2
    /\ \A k \in 1..Len(files) : files[k] \in openHandles

\* ------------------------------------------------------------------ C8
\* every token has been dealt with by the parser: a path token was opened,
\* "-" was converted, the first "--" was dropped
AllConsumed ==
    /\ pending = <<>>
    /\ \A i \in 1..N :
          \/ i \in Range(opened)
          \/ argv[i] = "-" /\ \E k \in 1..Len(files) : files[k].tok = i
          \/ Pattern(argv)[i] = "-"

\* C8 as stated: the greeting is printed at most once and only after every
\* command-line token has been successfully opened; main() returns its status
\* only after the greeting; the parser is no longer at work (nothing is left
\* to open) once the greeting is printed.
C8_Original ==
    /\ Cardinality({k \in 1..Len(stdout) : stdout[k] = Greeting}) <= 1
    /\ Greeted =>
          /\ ParseReturned /\ nparse = 1 /\ pending = <<>>
          /\ \A i \in 1..N : i \in Range(opened)
    /\ (ParseReturned /\ Terminated) => (Greeted /\ status = EX_OK)

\* C8 (amended): the run is one pass parse, print, return: the greeting is
\* printed at most once and only after the parser has dealt with every token
\* (every path token opened, "-" converted to standard input without an
\* open, the first "--" dropped); main() returns its status only after the
\* greeting; nothing is opened once the greeting is printed.
C8_Thm ==
    /\ [](/\ Cardinality({k \in 1..Len(stdout) : stdout[k] = Greeting}) <= 1
          /\ Greeted => (ParseReturned /\ nparse = 1 /\ AllConsumed)
          /\ (ParseReturned /\ Terminated) => (Greeted /\ status = EX_OK))
    /\ [][(Greeted /\ pc # "dead") =>
             (opened' = opened /\ openHandles' \subseteq openHandles
                /\ nparse' = nparse)]_vars

C8_Witness ==
    /\ pc = "exit" /\ Greeted /\ Len(opened) >= 2 /\ status = EX_OK

\* ------------------------------------------------------------------ C9
\* C9: once parse_args() has returned, the outcome is the same whatever was
\* parsed: stdout is the greeting and nothing else, stderr is empty, the
\* status is 0; main() leaves the handles open and the files as they were.
C9_Thm ==
    /\ (ParseReturned /\ Terminated) =>
          (stdout = <<Greeting>> /\ stderr = <<>> /\ status = EX_OK)
    /\ ParseReturned => fs = fs0
    /\ (ParseReturned /\ pc # "dead") => (HandlesOpen /\ Cardinality(openHandles) = Len(opened))

C9_Witness ==
    /\ ParseReturned /\ Terminated /\ Len(files) >= 2
    /\ files[1].path # files[2].path
    /\ stdout = <<Greeting>>

\* ------------------------------------------------------------------ C10
\* C10 as stated: tokens are opened in command-line order; when the open of
\* token K fails, every token 1..K-1 has been opened and its handle is still
\* open when the process terminates, and no token after K is ever opened; the
\* handles held (standard input included) are as many as the tokens converted.
C10_Original ==
    /\ \A k \in 1..(Len(opened) - 1) : opened[k] < opened[k + 1]
    /\ failed # 0 =>
          /\ \A i \in 1..(failed - 1) : i \in Range(opened)
          /\ \A i \in failed..N : i \notin Range(opened)
          /\ pc = "exit" =>
                \A i \in 1..(failed - 1) : FileHandle(argv[i], i) \in openHandles
    /\ (pc = "convert" \/ (pc = "exit" /\ failed # 0)) =>
          Len(acc) = Cardinality(openHandles)
                       + Cardinality({k \in 1..Len(acc) : acc[k].path = "<stdin>"})

\* C10 (amended): paths are opened in command-line order; when the open of
\* token K fails, every path token before K (not an option, not the "--"
\* separator, not "-") has been opened and its handle is still open when the
\* process terminates, and no token after K is ever opened; while the parser
\* converts, the entries it holds are as many as the tokens it has converted,
\* each a newly opened handle except for "-", whose entry is standard input.
C10_Thm ==
    /\ \A k \in 1..(Len(opened) - 1) : opened[k] < opened[k + 1]
    /\ failed # 0 =>
          /\ \A i \in 1..(failed - 1) : IsPathToken(i) => i \in Range(opened)
          /\ \A i \in failed..N : i \notin Range(opened)
          /\ ~ParseReturned
          /\ pc = "exit" =>
                \A i \in Range(opened) : FileHandle(argv[i], i) \in openHandles
    /\ (pc = "convert" \/ (pc = "exit" /\ failed # 0)) =>
          /\ Len(acc) = Cardinality(openHandles)
                          + Cardinality({k \in 1..Len(acc) : acc[k].path = "<stdin>"})
          /\ Cardinality(openHandles) = Len(opened)

C10_Witness ==
    /\ pc = "exit" /\ failed >= 2 /\ failed < N
    /\ Len(opened) >= 1
    /\ Cardinality(openHandles) = Len(opened)

====
